---- MODULE Spec2Model ----
(***************************************************************************)
(* Swachh Scan backend (src/main.py, src/schemas.py): a request/response   *)
(* layer over three MongoDB collections, facility, staff and feedback.     *)
(*                                                                         *)
(* Conventions of the model                                                *)
(*  - Optional[T]: None is the empty sequence, a present value x is <<x>>. *)
(*  - A collection is the sequence of its documents in insertion order;    *)
(*    the ObjectId of a document is its position in that sequence.         *)
(*  - A string that may be parsed as an ObjectId is <<"hex", n>> (the 24   *)
(*    hex digits of ObjectId n) or <<"text", n>> (anything else).          *)
(*  - datetime.now(timezone.utc) reads the variable now, a clock that      *)
(*    never runs backwards.                                                *)
(***************************************************************************)
EXTENDS Integers, Sequences, FiniteSets, TLC

VARIABLES
    facility,   \* db["facility"]
    staff,      \* db["staff"]
    feedback,   \* db["feedback"]
    now,        \* the wall clock
    resp,       \* the last request served and its response
    reqs,       \* requests in flight (concurrent specifications)
    applied     \* the order in which in-flight requests wrote (history)

vars == <<facility, staff, feedback, now, resp, reqs, applied>>

----------------------------------------------------------------------------
(* Bounds *)

MaxTime == 1
MaxFeedback == 1
MaxStaff == 2

----------------------------------------------------------------------------
(* Values *)

None == <<>>
Some(x) == <<x>>

Hex(n) == <<"hex", n>>
Text(n) == <<"text", n>>
Malformed == Text(0)
EmptyStr == Text(1)

Range(s) == {s[i] : i \in DOMAIN s}

(* dict operations *)
SetKey(d, k, v) == [f \in DOMAIN d \cup {k} |-> IF f = k THEN v ELSE d[f]]
SetDefault(d, k, v) == IF k \in DOMAIN d THEN d ELSE SetKey(d, k, v)
OmitNone(d) == [f \in {g \in DOMAIN d : d[g] # None} |-> d[f]]

(* bson.ObjectId.is_valid and ObjectId(str) *)
ObjectId_is_valid(s) == s[1] = "hex"
ObjectId(s) == s[2]

(* PyObjectId.validate: the ObjectId, or ValueError *)
PyObjectId_validate(v) ==
    IF ObjectId_is_valid(v) THEN [ok |-> TRUE, oid |-> ObjectId(v)]
    ELSE [ok |-> FALSE, oid |-> 0]

----------------------------------------------------------------------------
(* Schemas *)

(* schemas.Feedback: the fields and their defaults *)
FeedbackSchema(facility_code, rating, comment, photo_url, user_lat, user_lng) ==
    [facility_code |-> facility_code,
     rating |-> rating,
     comment |-> comment,
     photo_url |-> photo_url,
     status |-> "open",
     assigned_to |-> None,
     before_photo_url |-> None,
     after_photo_url |-> None,
     user_lat |-> user_lat,
     user_lng |-> user_lng,
     staff_start_lat |-> None,
     staff_start_lng |-> None,
     staff_complete_lat |-> None,
     staff_complete_lng |-> None,
     started_at |-> None,
     resolved_at |-> None]

(* Field(..., ge=1, le=5) *)
RatingValid(rating) == rating >= 1 /\ rating <= 5

(* HttpUrl validation of an Optional[HttpUrl] field *)
HttpUrlValid(u) == u = None \/ u[1][1] = "url"

Statuses == {"open", "in_progress", "resolved"}

----------------------------------------------------------------------------
(* database.py *)

(* create_document: stamps created_at and updated_at and inserts; the new
   document's id is its position *)
create_document(coll, data, t) ==
    Append(coll, SetKey(SetKey(data, "created_at", Some(t)), "updated_at", Some(t)))

(* collection.find_one({field: value}): the first match, or no position *)
find_one(coll, field, value) ==
    LET hits == {i \in DOMAIN coll : coll[i][field] = value}
    IN IF hits = {} THEN 0 ELSE CHOOSE i \in hits : \A j \in hits : i <= j

(* collection.update_one({"_id": oid}, {"$set": updates}).matched_count *)
matched_count(coll, oid) == IF oid \in DOMAIN coll THEN 1 ELSE 0

(* collection.update_one({"_id": oid}, {"$set": updates}): one atomic write
   of the named fields of the matched document *)
(* {"$set": updates} on one document *)
WriteFields(doc, updates) ==
    [f \in DOMAIN doc \cup DOMAIN updates |->
        IF f \in DOMAIN updates THEN updates[f] ELSE doc[f]]

update_one_replace(coll, oid, updates) ==
    [i \in DOMAIN coll |->
        IF i = oid
        THEN [f \in DOMAIN coll[i] \cup DOMAIN updates |->
                 IF f \in DOMAIN updates THEN updates[f]
                 ELSE IF f \in {"created_at", "facility_code", "rating"} THEN coll[i][f]
                 ELSE None]
        ELSE coll[i]]

update_one(coll, oid, updates) ==
    [i \in DOMAIN coll |-> IF i = oid THEN WriteFields(coll[i], updates) ELSE coll[i]]

----------------------------------------------------------------------------
(* Request handlers, one request served at a time *)

Response(op, id, code, req, body) ==
    [op |-> op, id |-> id, code |-> code, req |-> req, body |-> body]

(* history: the stored document a PATCH request found, for the claims that
   compare a record before and after a call *)
Before(coll, oid) == IF oid \in DOMAIN coll THEN Some(coll[oid]) ELSE None

NoBody == <<>>

(* POST /api/facilities *)
create_facility(payload) ==
    LET existing == find_one(facility, "code", payload.code)
    IN /\ IF existing # 0
          THEN /\ resp' = Response("create_facility", None, 400, payload, NoBody)
               /\ UNCHANGED facility
          ELSE /\ facility' = create_document(facility, payload, now)
               /\ resp' = Response("create_facility", Some(Hex(Len(facility) + 1)),
                                   200, payload, NoBody)
       /\ UNCHANGED <<staff, feedback, now, reqs, applied>>

(* POST /api/staff *)
create_staff(payload) ==
    /\ Len(staff) < MaxStaff
    /\ staff' = create_document(staff, payload, now)
    /\ resp' = Response("create_staff", Some(Hex(Len(staff) + 1)), 200, payload, NoBody)
    /\ UNCHANGED <<facility, feedback, now, reqs, applied>>

(* POST /api/feedback *)
submit_feedback(payload) ==
    LET fac == find_one(facility, "code", payload.facility_code)
        code == IF ~RatingValid(payload.rating) THEN 422
                ELSE IF fac = 0 THEN 404
                ELSE IF ~HttpUrlValid(payload.photo_url) THEN 500
                ELSE 200
        doc == FeedbackSchema(payload.facility_code, payload.rating, payload.comment,
                              payload.photo_url, payload.user_lat, payload.user_lng)
    IN /\ code = 200 => Len(feedback) < MaxFeedback
       /\ IF code = 200
          THEN /\ feedback' = create_document(feedback, doc, now)
               /\ resp' = Response("submit", Some(Hex(Len(feedback) + 1)), 200,
                                   payload, NoBody)
          ELSE /\ resp' = Response("submit", None, code, payload, NoBody)
               /\ UNCHANGED feedback
       /\ UNCHANGED <<facility, staff, now, reqs, applied>>

(* the $set documents of the three PATCH handlers *)
assign_updates_no_stamp(payload, t) ==
    [assigned_to |-> Some(payload.staff_id),
     status |-> "in_progress",
     updated_at |-> Some(t)]

assign_updates(payload, t) ==
    [assigned_to |-> Some(payload.staff_id),
     status |-> "in_progress",
     updated_at |-> Some(t),
     started_at |-> Some(t)]

start_updates_no_stamp(payload, t) ==
    SetKey(SetKey(OmitNone(payload), "status", "in_progress"), "updated_at", Some(t))

start_updates(payload, t) ==
    SetDefault(SetKey(SetKey(OmitNone(payload), "status", "in_progress"),
                      "updated_at", Some(t)),
               "started_at", Some(t))

resolve_updates_all(payload, t) ==
    SetKey(SetKey(SetKey(payload, "status", "resolved"), "updated_at", Some(t)),
           "resolved_at", Some(t))

resolve_updates(payload, t) ==
    SetKey(SetKey(SetKey(OmitNone(payload), "status", "resolved"),
                  "updated_at", Some(t)),
           "resolved_at", Some(t))

(* the common shape of the PATCH handlers: validate the id, update_one,
   404 on matched_count = 0, else find_one and return the document *)
patch(op, feedback_id, payload, updates) ==
    LET v == PyObjectId_validate(feedback_id)
    IN /\ IF ~v.ok
          THEN /\ resp' = Response(op, Some(feedback_id), 500, payload, NoBody)
               /\ UNCHANGED feedback
          ELSE /\ feedback' = update_one(feedback, v.oid, updates)
               /\ resp' = Response(op, Some(feedback_id),
                                   IF matched_count(feedback, v.oid) = 0 THEN 404 ELSE 200,
                                   payload, Before(feedback, v.oid))
       /\ UNCHANGED <<facility, staff, now, reqs, applied>>

(* PATCH /api/feedback/{feedback_id}/assign *)
assign_feedback(feedback_id, payload) ==
    patch("assign", feedback_id, payload, assign_updates(payload, now))

(* PATCH /api/feedback/{feedback_id}/start *)
start_task(feedback_id, payload) ==
    patch("start", feedback_id, payload, start_updates(payload, now))

(* PATCH /api/feedback/{feedback_id}/resolve *)
resolve_task(feedback_id, payload) ==
    patch("resolve", feedback_id, payload, resolve_updates(payload, now))

(* python truthiness of an Optional value: None and the type's zero are false *)
Truthy(x, zero) == x # None /\ x[1] # zero

Min(a, b) == IF a <= b THEN a ELSE b

(* injective sequences over S: the orders a cursor may yield S in *)
Orders(S) ==
    {p \in [1..Cardinality(S) -> S] : \A i, j \in 1..Cardinality(S) : i # j => p[i] # p[j]}

(* find(query): the positions of the documents matching every key of the query *)
list_query(coll, status, facility_code, assigned_to) ==
    {i \in DOMAIN coll :
        /\ Truthy(status, "") => coll[i].status = status[1]
        /\ Truthy(facility_code, "") => coll[i].facility_code = facility_code[1]
        /\ Truthy(assigned_to, EmptyStr) => coll[i].assigned_to = assigned_to}

(* .sort("created_at", -1): documents of equal created_at in any order *)
sort_created_at_desc(coll, hits) ==
    {p \in Orders(hits) :
        \A i, j \in DOMAIN p : i < j => coll[p[i]].created_at[1] >= coll[p[j]].created_at[1]}

(* if limit: docs = docs.limit(int(limit)) *)
cursor_limit(docs, limit) ==
    IF Truthy(limit, 0) THEN SubSeq(docs, 1, Min(limit[1], Len(docs))) ELSE docs

(* GET /api/feedback: the body is the sequence of the returned documents' ids *)
list_feedback(status, facility_code, assigned_to, limit) ==
    /\ \E docs \in sort_created_at_desc(feedback,
                       list_query(feedback, status, facility_code, assigned_to)) :
          resp' = Response("list", None, 200,
                           [status |-> status, facility_code |-> facility_code,
                            assigned_to |-> assigned_to, limit |-> limit],
                           cursor_limit(docs, limit))
    /\ UNCHANGED <<facility, staff, feedback, now, reqs, applied>>

(* count_documents({"status": status}) *)
count_documents(coll, status) == Cardinality({i \in DOMAIN coll : coll[i].status = status})

TopN == 10

(* {"$match": {"status": "resolved", "assigned_to": {"$ne": None}}} *)
pipeline_match_any_status(coll) == {i \in DOMAIN coll : coll[i].assigned_to # None}

pipeline_match(coll) ==
    {i \in DOMAIN coll : coll[i].status = "resolved" /\ coll[i].assigned_to # None}

(* the distinct assigned_to values of the matched documents, in the order a
   scan of the collection first meets them *)
RECURSIVE first_seen(_, _, _, _)
first_seen(coll, hits, i, acc) ==
    IF i > Len(coll) THEN acc
    ELSE IF i \in hits /\ coll[i].assigned_to[1] \notin Range(acc)
         THEN first_seen(coll, hits, i + 1, Append(acc, coll[i].assigned_to[1]))
         ELSE first_seen(coll, hits, i + 1, acc)

Reverse(s) == [i \in 1..Len(s) |-> s[Len(s) + 1 - i]]

(* {"$group": {"_id": "$assigned_to", "resolved_count": {"$sum": 1}}}: one
   group per distinct value; the order of the groups is the store's affair,
   here first-met order or its reverse *)
pipeline_group(coll, hits) ==
    LET ids == first_seen(coll, hits, 1, <<>>)
        groups == [k \in 1..Len(ids) |->
                      [_id |-> ids[k],
                       resolved_count |->
                           Cardinality({i \in hits : coll[i].assigned_to = Some(ids[k])})]]
    IN {groups, Reverse(groups)}

(* {"$sort": {"resolved_count": -1}}: an insertion sort, descending *)
sort_insert(sorted, g) ==
    LET n == Cardinality({i \in DOMAIN sorted :
                             sorted[i].resolved_count >= g.resolved_count})
    IN SubSeq(sorted, 1, n) \o <<g>> \o SubSeq(sorted, n + 1, Len(sorted))

RECURSIVE pipeline_sort(_, _)
pipeline_sort(groups, sorted) ==
    IF groups = <<>> THEN sorted
    ELSE pipeline_sort(Tail(groups), sort_insert(sorted, Head(groups)))

(* {"$limit": 10} *)
pipeline_limit(groups) == SubSeq(groups, 1, Min(TopN, Len(groups)))

(* the staff lookup of one leaderboard item *)
attach_staff_name(item) ==
    LET found == ObjectId_is_valid(item._id) /\ ObjectId(item._id) \in DOMAIN staff
    IN [staff_id |-> item._id,
        resolved_count |-> item.resolved_count,
        staff_name |-> IF found THEN Some(staff[ObjectId(item._id)].name) ELSE None]

(* GET /api/stats *)
stats ==
    /\ \E groups \in pipeline_group(feedback, pipeline_match(feedback)) :
          LET top == pipeline_limit(pipeline_sort(groups, <<>>))
          IN resp' = Response("stats", None, 200, NoBody,
                        [counts |-> [total |-> Len(feedback),
                                     open |-> count_documents(feedback, "open"),
                                     in_progress |-> count_documents(feedback, "in_progress"),
                                     resolved |-> count_documents(feedback, "resolved")],
                         leaderboard |-> [k \in 1..Len(top) |-> attach_staff_name(top[k])]])
    /\ UNCHANGED <<facility, staff, feedback, now, reqs, applied>>

(* time passes *)
Tick ==
    /\ now < MaxTime
    /\ now' = now + 1
    /\ resp' = Response("tick", None, 0, NoBody, NoBody)
    /\ UNCHANGED <<facility, staff, feedback, reqs, applied>>

----------------------------------------------------------------------------
(* Inputs *)

FacilityPayload(code, name) ==
    [code |-> code, name |-> name, address |-> None, lat |-> None, lng |-> None,
     ward |-> None, is_active |-> TRUE]

StaffPayload(name) ==
    [name |-> name, phone |-> None, employee_id |-> None, ward |-> None,
     is_active |-> TRUE]

SubmitPayload(code, rating, photo_url) ==
    [facility_code |-> code, rating |-> rating, comment |-> None,
     photo_url |-> photo_url, user_lat |-> None, user_lng |-> None]

StartPayload(url, lat, lng) ==
    [before_photo_url |-> url, staff_start_lat |-> lat, staff_start_lng |-> lng]

ResolvePayload(url, lat, lng) ==
    [after_photo_url |-> url, staff_complete_lat |-> lat, staff_complete_lng |-> lng]

FeedbackIds == {Hex(i) : i \in 1..(MaxFeedback + 1)} \cup {Malformed}
StaffIds == {Hex(1), Hex(2)}

----------------------------------------------------------------------------
(* The lifecycle, one request at a time *)

Init ==
    /\ facility = <<>>
    /\ staff = <<>>
    /\ feedback = <<>>
    /\ now = 0
    /\ resp = Response("init", None, 0, NoBody, NoBody)
    /\ reqs = <<>>
    /\ applied = <<>>

CreateFacility == \E code \in {"A"} : create_facility(FacilityPayload(code, "n1"))

SubmitInputs ==
    {SubmitPayload("A", r, None) : r \in {0, 1, 6}}
        \cup {SubmitPayload("B", 1, None), SubmitPayload("A", 1, Some(Malformed))}

Submit == \E p \in SubmitInputs : submit_feedback(p)

Assign ==
    \E id \in FeedbackIds, s \in StaffIds : assign_feedback(id, [staff_id |-> s])

Start ==
    \E id \in FeedbackIds : start_task(id, StartPayload(None, None, None))

Resolve ==
    \E id \in FeedbackIds : resolve_task(id, ResolvePayload(None, None, None))

Next ==
    \/ CreateFacility
    \/ Submit
    \/ Assign
    \/ Start
    \/ Resolve
    \/ Tick

Spec == Init /\ [][Next]_vars

----------------------------------------------------------------------------
(* What the last request did *)

Patches == {"assign", "start", "resolve"}
Served(op) == resp.op = op /\ resp.code = 200
Target == ObjectId(resp.id[1])
After == feedback[Target]
Prior == resp.body[1]

Rank(status) ==
    CASE status = "open" -> 0
      [] status = "in_progress" -> 1
      [] status = "resolved" -> 2
      [] OTHER -> 3

(* the feedback_id names a stored record *)
Names(id, coll) == \E i \in DOMAIN coll : Hex(i) = id

----------------------------------------------------------------------------
(* C1: the status of a record only moves forward, open -> in_progress ->
   resolved: no served Assign, Start or Resolve leaves the record with a
   status earlier than the one it found, so nothing leaves resolved. *)
C1_StatusOnlyMovesForward ==
    (resp.op \in Patches /\ resp.code = 200) => Rank(After.status) >= Rank(Prior.status)

(* C2: a Start on a record whose started_at is already recorded leaves
   started_at as it was, and still sets status = in_progress and
   updated_at = now. *)
C2_StartKeepsRecordedStartedAt ==
    (Served("start") /\ Prior.started_at # None) =>
        /\ After.started_at = Prior.started_at
        /\ After.status = "in_progress"
        /\ After.updated_at = Some(now)

(* C4: a failing call changes nothing and fails as specified: Submit with a
   rating outside 1..5 is a validation error, Submit with an unknown
   facility_code is NotFound, and Assign, Start and Resolve with a
   feedback_id naming no record are NotFound; in each case the feedback
   collection after the call is the collection before it. *)
C4_FailuresAsSpecified ==
    [][/\ (resp'.op = "submit" /\ ~RatingValid(resp'.req.rating)) =>
            (resp'.code = 422 /\ feedback' = feedback)
       /\ (resp'.op = "submit" /\ RatingValid(resp'.req.rating)
             /\ find_one(facility, "code", resp'.req.facility_code) = 0) =>
            (resp'.code = 404 /\ feedback' = feedback)
       /\ (resp'.op \in Patches /\ ~Names(resp'.id[1], feedback)) =>
            (resp'.code = 404 /\ feedback' = feedback)]_vars

(* every call that is not served leaves all three collections as they were *)
FailedCallsChangeNothing ==
    [][(resp'.code # 200 /\ resp'.op # "tick") =>
            UNCHANGED <<facility, staff, feedback>>]_vars

(* C6: Assign(id, staff) on an existing record is served whether or not a
   Staff record with that identifier exists, and leaves status =
   in_progress, assigned_to = staff and started_at = the time of the call,
   which is not earlier than the record's creation; on a record already
   assigned it replaces assigned_to and moves started_at to the later
   call's time. *)
C6_AssignSetsStaffAndStart ==
    (resp.op = "assign" /\ Names(resp.id[1], feedback)) =>
        /\ resp.code = 200
        /\ After.status = "in_progress"
        /\ After.assigned_to = Some(resp.req.staff_id)
        /\ After.started_at = Some(now)
        /\ After.started_at[1] >= After.created_at[1]
        /\ Prior.started_at # None => After.started_at[1] >= Prior.started_at[1]

(* a second Assign, to another staff member who has no Staff record, at a
   later time than the first *)
C6_Witness ==
    /\ Served("assign")
    /\ Prior.status = "in_progress"
    /\ Prior.assigned_to # None
    /\ Prior.assigned_to # After.assigned_to
    /\ Prior.started_at[1] < After.started_at[1]
    /\ \A i \in DOMAIN staff : Hex(i) # resp.req.staff_id

(* C10: every record's status is open, in_progress or resolved; an open
   record has assigned_to, started_at and resolved_at unset, an in_progress
   record has started_at set, a resolved record has resolved_at set. *)
C10_LifecycleFieldsAgree ==
    \A i \in DOMAIN feedback :
        LET d == feedback[i]
        IN /\ d.status \in Statuses
           /\ d.status = "open" =>
                (d.assigned_to = None /\ d.started_at = None /\ d.resolved_at = None)
           /\ d.status = "in_progress" => d.started_at # None
           /\ d.status = "resolved" => d.resolved_at # None

(* a record started without an Assign, resolved, and started again *)
C10_Witness ==
    /\ Served("start")
    /\ Prior.status = "resolved"
    /\ Prior.assigned_to = None
    /\ After.status = "in_progress"
    /\ After.resolved_at # None

----------------------------------------------------------------------------
(* The PATCH calls with their optional fields, on one submitted record *)

OneRecord ==
    create_document(<<>>, FeedbackSchema("A", 3, None, None, None, None), 0)

InitResolve ==
    /\ facility = create_document(<<>>, FacilityPayload("A", "n1"), 0)
    /\ staff = <<>>
    /\ feedback = OneRecord
    /\ now = 0
    /\ resp = Response("init", None, 0, NoBody, NoBody)
    /\ reqs = <<>>
    /\ applied = <<>>

PatchIds == {Hex(1), Hex(2)}
Urls == {None, Some(Text(2)), Some(Text(3))}
Lats == {None, Some(7)}
Lngs == {None, Some(8)}

AssignR == \E id \in PatchIds : assign_feedback(id, [staff_id |-> Hex(1)])

StartR ==
    \E id \in PatchIds, lat \in Lats : start_task(id, StartPayload(None, lat, None))

ResolveR ==
    \E id \in PatchIds, url \in Urls, lat \in Lats, lng \in Lngs :
        resolve_task(id, ResolvePayload(url, lat, lng))

NextResolve ==
    \/ AssignR
    \/ StartR
    \/ ResolveR
    \/ Tick

SpecResolve == InitResolve /\ [][NextResolve]_vars

ForcedByResolve == {"status", "updated_at", "resolved_at"}

(* C5: a served Resolve, whatever status it found, leaves status =
   resolved and resolved_at = updated_at = the time of the call (an earlier
   resolved_at is overwritten); each optional field present in the call has
   the call's value, and every other field, assigned_to and started_at
   among them, is as the call found it. *)
C5_ResolveForcesResolved ==
    Served("resolve") =>
        /\ After.status = "resolved"
        /\ After.resolved_at = Some(now)
        /\ After.updated_at = Some(now)
        /\ DOMAIN After = DOMAIN Prior
        /\ \A f \in DOMAIN After \ ForcedByResolve :
              After[f] = IF f \in DOMAIN resp.req /\ resp.req[f] # None
                         THEN resp.req[f]
                         ELSE Prior[f]

(* a second Resolve, later than the first, on an assigned record, that
   names one optional field the record lacks and omits one it holds *)
C5_Witness ==
    /\ Served("resolve")
    /\ Prior.status = "resolved"
    /\ Prior.resolved_at[1] < now
    /\ Prior.assigned_to # None
    /\ Prior.started_at # None
    /\ Prior.after_photo_url # None
    /\ resp.req.after_photo_url = None
    /\ Prior.staff_complete_lat = None
    /\ resp.req.staff_complete_lat # None

----------------------------------------------------------------------------
(* Concurrent requests: each handler is a sequence of store operations, and
   the operations of different requests interleave *)

Clients == {1, 2, 3}

Idle == [pc |-> "idle"]
Call(op, pc, oid, payload, updates, code) ==
    [pc |-> pc, op |-> op, oid |-> oid, payload |-> payload, updates |-> updates,
     code |-> code]

InFlight(c, pc) == reqs[c].pc = pc

(* a PATCH request arrives: the handler builds its $set document from the
   payload and the clock *)
patch_call(c, op, feedback_id, payload, updates) ==
    LET v == PyObjectId_validate(feedback_id)
    IN /\ InFlight(c, "idle")
       /\ reqs' = [reqs EXCEPT ![c] =
                     IF v.ok THEN Call(op, "update_one", v.oid, payload, updates, 0)
                     ELSE Call(op, "done", 0, payload, updates, 500)]
       /\ UNCHANGED <<facility, staff, feedback, now, resp, applied>>

(* db["feedback"].update_one(...), then the matched_count test *)
patch_update_one(c) ==
    /\ InFlight(c, "update_one")
    /\ feedback' = update_one(feedback, reqs[c].oid, reqs[c].updates)
    /\ IF matched_count(feedback, reqs[c].oid) = 0
       THEN /\ reqs' = [reqs EXCEPT ![c].pc = "done", ![c].code = 404]
            /\ UNCHANGED applied
       ELSE /\ reqs' = [reqs EXCEPT ![c].pc = "find_one"]
            /\ applied' = Append(applied, c)
    /\ UNCHANGED <<facility, staff, now, resp>>

(* db["feedback"].find_one(...) and the response *)
patch_find_one(c) ==
    /\ InFlight(c, "find_one")
    /\ reqs' = [reqs EXCEPT ![c].pc = "done", ![c].code = 200]
    /\ resp' = Response(reqs[c].op, Some(Hex(reqs[c].oid)), 200, reqs[c].payload,
                        Some(feedback[reqs[c].oid]))
    /\ UNCHANGED <<facility, staff, feedback, now, applied>>

TickC ==
    /\ now < MaxTime
    /\ now' = now + 1
    /\ UNCHANGED <<facility, staff, feedback, resp, reqs, applied>>

InitConc ==
    /\ facility = create_document(<<>>, FacilityPayload("A", "n1"), 0)
    /\ staff = <<>>
    /\ feedback = OneRecord
    /\ now = 0
    /\ resp = Response("init", None, 0, NoBody, NoBody)
    /\ reqs = [c \in Clients |-> Idle]
    /\ applied = <<>>

AssignC ==
    \E c \in Clients, s \in StaffIds :
        patch_call(c, "assign", Hex(1), [staff_id |-> s],
                   assign_updates([staff_id |-> s], now))

StartC ==
    \E c \in Clients, id \in PatchIds :
        patch_call(c, "start", id, StartPayload(None, Some(7), None),
                   start_updates(StartPayload(None, Some(7), None), now))

ResolveC ==
    \E c \in Clients, lat \in Lats :
        patch_call(c, "resolve", Hex(1), ResolvePayload(None, lat, None),
                   resolve_updates(ResolvePayload(None, lat, None), now))

UpdateOneC == \E c \in Clients : patch_update_one(c)

FindOneC == \E c \in Clients : patch_find_one(c)

NextConc ==
    \/ AssignC
    \/ StartC
    \/ ResolveC
    \/ UpdateOneC
    \/ FindOneC
    \/ TickC

SpecConc == InitConc /\ [][NextConc]_vars

RECURSIVE OneAfterAnother(_, _)
OneAfterAnother(doc, order) ==
    IF order = <<>> THEN doc
    ELSE OneAfterAnother(WriteFields(doc, reqs[Head(order)].updates), Tail(order))

(* the calls that wrote the record, and those among them that wrote field f *)
Writers == {c \in Clients : reqs[c].pc \in {"find_one", "done"} /\ reqs[c].code # 404
                              /\ reqs[c].code # 500}
WritersOf(f) == {c \in Writers : f \in DOMAIN reqs[c].updates}
LastOf(W) == CHOOSE c \in W : \E i \in DOMAIN applied :
                 applied[i] = c /\ \A j \in DOMAIN applied : j > i => applied[j] \notin W

(* C7: whatever the interleaving, the record is the result of applying the
   $set documents of the calls that matched it one after another, in the
   order of their update_one steps: a field only one call wrote holds that
   call's value, a field several calls wrote holds the value of the call
   applied last, and a field no call wrote is as it was. *)
C7_UpdatesApplyOneAfterAnother ==
    /\ Range(applied) = Writers
    /\ Len(applied) = Cardinality(Writers)
    /\ feedback[1] = OneAfterAnother(OneRecord[1], applied)
    /\ \A f \in DOMAIN feedback[1] :
          feedback[1][f] = IF WritersOf(f) = {} THEN OneRecord[1][f]
                           ELSE reqs[LastOf(WritersOf(f))].updates[f]

(* an Assign, a Start and a Resolve on the same record, all served, where
   the call that wrote last had built its update before an earlier writer
   built its own *)
C7_Witness ==
    /\ \A c \in Clients : reqs[c].pc = "done" /\ reqs[c].code = 200
    /\ {reqs[c].op : c \in Clients} = Patches
    /\ Len(applied) = 3
    /\ reqs[applied[3]].updates.updated_at[1] < reqs[applied[1]].updates.updated_at[1]
    /\ reqs[applied[3]].op = "start"

----------------------------------------------------------------------------
(* Concurrent POST /api/facilities *)

(* find_one({"code": payload.code}) and the test of its result *)
create_facility_find_one(c, payload) ==
    /\ InFlight(c, "idle")
    /\ reqs' = [reqs EXCEPT ![c] =
                  IF find_one(facility, "code", payload.code) # 0
                  THEN Call("create_facility", "done", 0, payload, NoBody, 400)
                  ELSE Call("create_facility", "create_document", 0, payload, NoBody, 0)]
    /\ UNCHANGED <<facility, staff, feedback, now, resp, applied>>

(* create_document("facility", payload) *)
create_facility_create_document(c) ==
    /\ InFlight(c, "create_document")
    /\ facility' = create_document(facility, reqs[c].payload, now)
    /\ reqs' = [reqs EXCEPT ![c].pc = "find_one", ![c].oid = Len(facility) + 1]
    /\ UNCHANGED <<staff, feedback, now, resp, applied>>

(* find_one({"_id": inserted_id}) and the response *)
create_facility_return(c) ==
    /\ InFlight(c, "find_one")
    /\ reqs' = [reqs EXCEPT ![c].pc = "done", ![c].code = 200]
    /\ UNCHANGED <<facility, staff, feedback, now, resp, applied>>

InitFacility ==
    /\ facility = <<>>
    /\ staff = <<>>
    /\ feedback = <<>>
    /\ now = 0
    /\ resp = Response("init", None, 0, NoBody, NoBody)
    /\ reqs = [c \in Clients |-> Idle]
    /\ applied = <<>>

FacilityFindOne ==
    \E c \in Clients, code \in {"A", "B"}, name \in {"n1", "n2"} :
        create_facility_find_one(c, FacilityPayload(code, name))

FacilityCreateDocument == \E c \in Clients : create_facility_create_document(c)

FacilityReturn == \E c \in Clients : create_facility_return(c)

NextFacility ==
    \/ FacilityFindOne
    \/ FacilityCreateDocument
    \/ FacilityReturn

SpecFacility == InitFacility /\ [][NextFacility]_vars

(* C3: no two facility records have the same code, also when the steps of
   concurrent Create facility requests interleave; and a request whose code
   already exists fails with Conflict (400) and leaves the facility
   collection as it was. *)
C3_FacilityCodeUnique ==
    [][/\ \A i, j \in DOMAIN facility' :
            i # j => facility'[i].code # facility'[j].code
       /\ \A c \in Clients :
            (reqs[c].pc = "idle" /\ reqs'[c].pc # "idle"
                /\ find_one(facility, "code", reqs'[c].payload.code) # 0) =>
            (reqs'[c].code = 400 /\ reqs'[c].pc = "done" /\ facility' = facility)]_vars

----------------------------------------------------------------------------
(* Stored records as the handlers leave them *)

Submitted(code, t) == create_document(<<>>, FeedbackSchema(code, 3, None, None, None, None), t)[1]
Assigned(doc, s, t) == WriteFields(doc, assign_updates([staff_id |-> s], t))
Resolved(doc, t) == WriteFields(doc, resolve_updates(ResolvePayload(None, None, None), t))

----------------------------------------------------------------------------
(* List, on every store of a bounded family *)

MaxDocs == 2
DefaultLimit == 100

ListDocs ==
    UNION {{Submitted(code, t),
            Assigned(Submitted(code, t), Hex(1), t),
            Resolved(Assigned(Submitted(code, t), Hex(1), t), t),
            Resolved(Submitted(code, t), t)} : code \in {"A", "B"}, t \in 0..MaxTime}

(* insertion order is creation order: the clock never runs backwards *)
ListStores ==
    UNION {{s \in [1..n -> ListDocs] :
              \A i, j \in 1..n : i < j => s[i].created_at[1] <= s[j].created_at[1]}
           : n \in 0..MaxDocs}

InitList ==
    /\ facility = create_document(create_document(<<>>, FacilityPayload("A", "n1"), 0),
                                  FacilityPayload("B", "n2"), 0)
    /\ staff = <<>>
    /\ feedback \in ListStores
    /\ now = MaxTime
    /\ resp = Response("init", None, 0, NoBody, NoBody)
    /\ reqs = <<>>
    /\ applied = <<>>

List ==
    \E status \in {None, Some(""), Some("open"), Some("resolved")},
       facility_code \in {None, Some("A")},
       assigned_to \in {None, Some(Hex(1))},
       limit \in {Some(0), Some(1), Some(2), Some(DefaultLimit)} :
        list_feedback(status, facility_code, assigned_to, limit)

NextList == List

SpecList == InitList /\ [][NextList]_vars

(* a filter is provided when the query names it with a non-empty value *)
Provided(x) == x # None /\ x[1] # ""

(* the records matching every provided filter of query q *)
Matching(q) ==
    {i \in DOMAIN feedback :
        /\ Provided(q.status) => feedback[i].status = q.status[1]
        /\ Provided(q.facility_code) => feedback[i].facility_code = q.facility_code[1]
        /\ q.assigned_to # None => feedback[i].assigned_to = q.assigned_to}

(* docs holds records matching q only, none twice, newest first *)
NewestFirstMatches(q, docs) ==
    /\ Range(docs) \subseteq Matching(q)
    /\ \A i, j \in DOMAIN docs : i # j => docs[i] # docs[j]
    /\ \A i, j \in DOMAIN docs :
          i < j => feedback[docs[i]].created_at[1] >= feedback[docs[j]].created_at[1]

(* C9: List returns exactly the records matching every provided filter,
   newest first by creation time, and never more than limit entries,
   whatever limit the caller passes. *)
C9_ListMatchesNewestFirstWithinLimit ==
    resp.op = "list" =>
        /\ NewestFirstMatches(resp.req, resp.body)
        /\ Len(resp.body) <= resp.req.limit[1]
        /\ Len(resp.body) = Min(resp.req.limit[1], Cardinality(Matching(resp.req)))

(* what the handler does with the limit: a positive limit truncates, and 0,
   which python reads as false, returns every match *)
ListTruncatesOnPositiveLimit ==
    resp.op = "list" =>
        /\ NewestFirstMatches(resp.req, resp.body)
        /\ resp.req.limit[1] > 0 =>
              Len(resp.body) = Min(resp.req.limit[1], Cardinality(Matching(resp.req)))
        /\ resp.req.limit[1] = 0 => Len(resp.body) = Cardinality(Matching(resp.req))

----------------------------------------------------------------------------
(* Stats, on every store of a bounded family: up to TopN + 1 resolved
   records of different staff members, then up to MaxExtra further records *)

MaxExtra == 2

ResolvedBy(s) == Resolved(Assigned(Submitted("A", 0), s, 0), 0)

ExtraDocs ==
    {ResolvedBy(s) : s \in {Hex(1), Hex(2), Hex(TopN + 2), Malformed}}
        \cup {Assigned(Submitted("A", 0), Hex(1), 0),
              Resolved(Submitted("A", 0), 0),
              Submitted("A", 0)}

StatsStores ==
    {[k \in 1..n |-> ResolvedBy(Hex(k))] \o extra :
        n \in 0..(TopN + 1),
        extra \in UNION {[1..m -> ExtraDocs] : m \in 0..MaxExtra}}

InitStats ==
    /\ facility = create_document(<<>>, FacilityPayload("A", "n1"), 0)
    /\ staff = <<>>
    /\ feedback \in StatsStores
    /\ now = 0
    /\ resp = Response("init", None, 0, NoBody, NoBody)
    /\ reqs = <<>>
    /\ applied = <<>>

CreateStaffS == \E name \in {"Asha"} : create_staff(StaffPayload(name))

Stats == stats

NextStats ==
    \/ CreateStaffS
    \/ Stats

SpecStats == InitStats /\ [][NextStats]_vars

(* the resolved records assigned to staff identifier s *)
ResolvedOf(s) ==
    {i \in DOMAIN feedback :
        feedback[i].status = "resolved" /\ feedback[i].assigned_to = Some(s)}

ResolvedStaff ==
    {feedback[i].assigned_to[1] :
        i \in {j \in DOMAIN feedback :
                  feedback[j].status = "resolved" /\ feedback[j].assigned_to # None}}

HasStaffRecord(s) == s[1] = "hex" /\ s[2] \in DOMAIN staff

(* C8: the leaderboard has one entry per distinct non-null assigned_to of
   the resolved records, each with the number of those records, in
   descending order of that number, cut to the TopN largest; records that
   are not resolved or not assigned count for nothing; an entry whose
   identifier has no Staff record is kept, with a null name. *)
C8_LeaderboardRanksResolvedPerStaff ==
    resp.op = "stats" =>
        LET lb == resp.body.leaderboard
            listed == {lb[k].staff_id : k \in DOMAIN lb}
        IN /\ listed \subseteq ResolvedStaff
           /\ \A i, j \in DOMAIN lb : i # j => lb[i].staff_id # lb[j].staff_id
           /\ \A k \in DOMAIN lb :
                 lb[k].resolved_count = Cardinality(ResolvedOf(lb[k].staff_id))
           /\ \A i, j \in DOMAIN lb :
                 i < j => lb[i].resolved_count >= lb[j].resolved_count
           /\ Len(lb) = Min(TopN, Cardinality(ResolvedStaff))
           /\ \A s \in ResolvedStaff \ listed : \A k \in DOMAIN lb :
                 Cardinality(ResolvedOf(s)) <= lb[k].resolved_count
           /\ \A k \in DOMAIN lb :
                 lb[k].staff_name = IF HasStaffRecord(lb[k].staff_id)
                                    THEN Some(staff[lb[k].staff_id[2]].name)
                                    ELSE None

(* more staff than the leaderboard holds, unequal counts, entries with and
   without a Staff record, and a resolved record assigned to nobody *)
C8_Witness ==
    /\ resp.op = "stats"
    /\ Cardinality(ResolvedStaff) > TopN
    /\ Len(resp.body.leaderboard) = TopN
    /\ resp.body.leaderboard[1].resolved_count > resp.body.leaderboard[TopN].resolved_count
    /\ \E k \in DOMAIN resp.body.leaderboard : resp.body.leaderboard[k].staff_name = None
    /\ \E k \in DOMAIN resp.body.leaderboard : resp.body.leaderboard[k].staff_name # None
    /\ \E i \in DOMAIN feedback :
          feedback[i].status = "resolved" /\ feedback[i].assigned_to = None

====
